---- MODULE Spec2Model ----
(***************************************************************************)
(* Hysteresis oscillatory network (pyclustering.nnet.hysteresis).          *)
(*                                                                         *)
(* The network object's fields (states, outputs, outputs_buffer, weight),  *)
(* its setters, simulate / simulate_static / simulate_dynamic, the macro   *)
(* step _calculate_states with the derivative neuron_states, and           *)
(* allocate_sync_ensembles.                                                *)
(*                                                                         *)
(* Numbers.  Simulation times are Python floats; the two numpy.arange      *)
(* calls decide how many macro steps a run takes and how many time points  *)
(* each integration gets, and both depend on float rounding, so times are  *)
(* modelled as IEEE-754 binary64 values with round-to-nearest-even.        *)
(* Oscillator states are fixed-point integers, Scale units to 1.0.         *)
(*                                                                         *)
(* Integration.  During one odeint call the published outputs are fixed,   *)
(* so the equation is x' = -x + level and odeint returns its solution      *)
(* level + (x0 - level) * exp(-t) at the requested times.  Which states    *)
(* the derivative, and so the latch, is shown depends on the integrator's  *)
(* internal steps, which may run past the last requested time: that is a   *)
(* nondeterministic choice of every call.                                  *)
(***************************************************************************)
EXTENDS Integers, Sequences, FiniteSets, TLC

\* ---- evaluation order ----
\* LetN(v.., F) is F(v..) with the arguments evaluated once, before F's body.
Let(v, F(_)) == CHOOSE out \in {F(x) : x \in {v}} : TRUE
Let2(v, w, F(_, _)) == CHOOSE out \in {F(x, y) : x \in {v}, y \in {w}} : TRUE
Let3(u, v, w, F(_, _, _)) == CHOOSE out \in {F(x, y, z) : x \in {u}, y \in {v}, z \in {w}} : TRUE
Let4(t, u, v, w, F(_, _, _, _)) ==
    CHOOSE out \in {F(p, x, y, z) : p \in {t}, x \in {u}, y \in {v}, z \in {w}} : TRUE

\* ---- natural numbers wider than a machine word: little-endian limbs ----
Base == 2^13
RECURSIVE IntBitLen(_)
IntBitLen(n) == IF n = 0 THEN 0 ELSE 1 + IntBitLen(n \div 2)
LimbBits == IntBitLen(Base) - 1
\* width of the significand of a Python float (IEEE-754 binary64)
MantBits == 53

RECURSIVE BNNorm(_)
BNNorm(a) == IF a = <<>> THEN <<>>
             ELSE IF a[Len(a)] = 0 THEN Let(SubSeq(a, 1, Len(a) - 1), BNNorm) ELSE a

RECURSIVE BNFromInt(_)
BNFromInt(n) == IF n = 0 THEN <<>> ELSE <<n % Base>> \o Let(n \div Base, BNFromInt)

RECURSIVE BNToInt(_)
BNToInt(a) == IF a = <<>> THEN 0 ELSE Head(a) + Base * Let(Tail(a), BNToInt)

RECURSIVE BNAddC(_, _, _)
BNAddC(a, b, c) ==
    IF a = <<>> /\ b = <<>> THEN (IF c = 0 THEN <<>> ELSE <<c>>)
    ELSE Let((IF a = <<>> THEN 0 ELSE Head(a)) + (IF b = <<>> THEN 0 ELSE Head(b)) + c,
             LAMBDA x : <<x % Base>> \o Let3(IF a = <<>> THEN a ELSE Tail(a),
                                             IF b = <<>> THEN b ELSE Tail(b),
                                             x \div Base, BNAddC))
BNAdd(a, b) == BNAddC(a, b, 0)

RECURSIVE BNSubC(_, _, _)
BNSubC(a, b, c) ==
    IF a = <<>> THEN <<>>
    ELSE Let(Head(a) - (IF b = <<>> THEN 0 ELSE Head(b)) - c,
             LAMBDA x : <<x % Base>> \o Let3(Tail(a), IF b = <<>> THEN b ELSE Tail(b),
                                             IF x < 0 THEN 1 ELSE 0, BNSubC))
\* a - b for a >= b
BNSub(a, b) == Let(BNSubC(a, b, 0), BNNorm)

RECURSIVE BNCmpAt(_, _, _)
BNCmpAt(a, b, i) ==
    IF i = 0 THEN 0
    ELSE IF a[i] < b[i] THEN -1 ELSE IF a[i] > b[i] THEN 1 ELSE BNCmpAt(a, b, i - 1)
BNCmp(a, b) == IF Len(a) < Len(b) THEN -1 ELSE IF Len(a) > Len(b) THEN 1
               ELSE BNCmpAt(a, b, Len(a))

RECURSIVE BNMulC(_, _, _)
BNMulC(a, k, c) ==
    IF a = <<>> THEN (IF c = 0 THEN <<>> ELSE BNFromInt(c))
    ELSE Let(Head(a) * k + c,
             LAMBDA x : <<x % Base>> \o Let3(Tail(a), k, x \div Base, BNMulC))
BNMulSmall(a, k) == IF k = 0 THEN <<>> ELSE BNMulC(a, k, 0)

RECURSIVE BNDivC(_, _, _, _)
BNDivC(a, k, i, r) ==
    IF i = 0 THEN [q |-> <<>>, r |-> r]
    ELSE Let(r * Base + a[i],
             LAMBDA x : Let(Let4(a, k, i - 1, x % k, BNDivC),
                            LAMBDA rest : [q |-> rest.q \o <<x \div k>>, r |-> rest.r]))
BNDivSmall(a, k) == Let(BNDivC(a, k, Len(a), 0), LAMBDA d : [q |-> BNNorm(d.q), r |-> d.r])

BNBitLen(a) == IF a = <<>> THEN 0 ELSE LimbBits * (Len(a) - 1) + IntBitLen(a[Len(a)])
BNShl(a, s) == IF a = <<>> THEN <<>>
               ELSE [i \in 1..(s \div LimbBits) |-> 0] \o BNMulSmall(a, 2^(s % LimbBits))
BNShr(a, s) == IF s \div LimbBits >= Len(a) THEN <<>>
               ELSE Let(SubSeq(a, (s \div LimbBits) + 1, Len(a)),
                        LAMBDA hi : BNDivSmall(hi, 2^(s % LimbBits)).q)
BNOdd(a) == a # <<>> /\ a[1] % 2 = 1

\* ---- Python floats: the value m * 2^e with m of MantBits bits, or zero ----
FZero == [m |-> <<>>, e |-> 0]
\* q is M without its s lowest bits: round to nearest, ties to even
FRoundTo(M, q, s, e) ==
    Let(Let2(Let(BNShl(q, s), LAMBDA lo : BNSub(M, lo)), BNShl(<<1>>, s - 1), BNCmp),
        LAMBDA c :
            Let(IF c > 0 \/ (c = 0 /\ BNOdd(q)) THEN BNAdd(q, <<1>>) ELSE q,
                LAMBDA q2 : IF BNBitLen(q2) > MantBits
                            THEN [m |-> BNShr(q2, 1), e |-> e + s + 1]
                            ELSE [m |-> q2, e |-> e + s]))
\* the float nearest to M * 2^e
FRound(M, e) ==
    IF M = <<>> THEN FZero
    ELSE Let(BNBitLen(M),
             LAMBDA L : IF L <= MantBits
                        THEN [m |-> BNShl(M, MantBits - L), e |-> e - (MantBits - L)]
                        ELSE Let(BNShr(M, L - MantBits),
                                 LAMBDA q : FRoundTo(M, q, L - MantBits, e)))
FFromInt(n) == Let(BNFromInt(n), LAMBDA M : FRound(M, 0))
FMin(a, b)  == IF a < b THEN a ELSE b
FAligned(x, em) == BNShl(x.m, x.e - em)
FAdd(x, y) ==
    IF x.m = <<>> THEN y ELSE IF y.m = <<>> THEN x
    ELSE Let(Let2(FAligned(x, FMin(x.e, y.e)), FAligned(y, FMin(x.e, y.e)), BNAdd),
             LAMBDA M : FRound(M, FMin(x.e, y.e)))
\* x - y for x >= y
FSub(x, y) ==
    IF y.m = <<>> THEN x
    ELSE Let(Let2(FAligned(x, FMin(x.e, y.e)), FAligned(y, FMin(x.e, y.e)), BNSub),
             LAMBDA M : FRound(M, FMin(x.e, y.e)))
FMulInt(k, x) == Let(BNMulSmall(x.m, k), LAMBDA M : FRound(M, x.e))

\* n more bits of the quotient by long division: quotient q so far, remainder rem
RECURSIVE FDivBits(_, _, _, _)
FDivBits(rem, d, q, n) ==
    IF n = 0 THEN [q |-> q, r |-> rem]
    ELSE Let2(BNMulSmall(rem, 2), BNMulSmall(q, 2),
              LAMBDA r2, q2 :
                  IF BNCmp(r2, d) >= 0
                  THEN Let4(BNSub(r2, d), d, BNAdd(q2, <<1>>), n - 1, FDivBits)
                  ELSE FDivBits(r2, d, q2, n - 1))
ChunkBits == 3 * 5
GuardBits == 4 * ChunkBits
FDivMore(d, y) == FDivBits(d.r, y.m, d.q, ChunkBits)
FDiv(x, y) ==
    IF x.m = <<>> THEN FZero
    ELSE Let(IF BNCmp(x.m, y.m) >= 0 THEN FDivBits(BNSub(x.m, y.m), y.m, <<1>>, ChunkBits)
             ELSE FDivBits(x.m, y.m, <<>>, ChunkBits),
             LAMBDA d1 : Let(FDivMore(d1, y),
             LAMBDA d2 : Let(FDivMore(d2, y),
             LAMBDA d3 : Let(FDivMore(d3, y),
             LAMBDA d4 : Let(BNAdd(BNMulSmall(d4.q, 2), IF d4.r = <<>> THEN <<>> ELSE <<1>>),
             LAMBDA M : FRound(M, x.e - y.e - GuardBits - 1))))))

\* math.ceil of a float whose value fits a machine integer
FCeil(x) ==
    IF x.m = <<>> THEN 0
    ELSE IF x.e >= 0 THEN BNToInt(BNShl(x.m, x.e))
    ELSE Let(BNShr(x.m, -x.e),
             LAMBDA q : BNToInt(q) + (IF BNShl(q, -x.e) = x.m THEN 0 ELSE 1))
FLess(x, y) ==
    IF y.m = <<>> THEN FALSE ELSE IF x.m = <<>> THEN TRUE
    ELSE Let2(FAligned(x, FMin(x.e, y.e)), FAligned(y, FMin(x.e, y.e)), BNCmp) < 0

\* numpy.arange(start, stop, step): number of points and the i-th point
ArangeLen(start, stop, step) ==
    Let(FSub(stop, start), LAMBDA span : Let(FDiv(span, step), FCeil))
ArangeAt(start, step, i) ==
    IF i = 0 THEN start
    ELSE Let(FAdd(start, step),
             LAMBDA second :
                 IF i = 1 THEN second
                 ELSE Let(FSub(second, start),
                          LAMBDA delta : Let(FMulInt(i, delta),
                                             LAMBDA offset : FAdd(start, offset))))

\* ---- what odeint returns for the network's equation ----
\* The derivative is -x + impact with the impact constant during one odeint call, so
\* the solution is x(t) = level + (x(0) - level) * exp(-t), which odeint returns to
\* within its tolerance.  Decay(k, hnum, hden) is exp(-k * hnum / hden) in units of
\* 10^-8, from the series with the terms kept in units of 10^-12.
\* sub-steps per macro step: int_step = step / 10
SubSteps == 10
\* how many sub-steps past the last time point odeint's internal steps may run
\* (it is called without tcrit)
MaxOvershoot == 1
Myriad == 10 ^ 4
ExpUnit == BNMulSmall(BNMulSmall(BNFromInt(10 ^ 6), 10 ^ 3), 10 ^ 3)
RECURSIVE ExpTerms(_, _, _, _, _)
ExpTerms(term, num, den, n, acc) ==
    IF term = <<>> THEN acc
    ELSE Let2(IF n % 2 = 0 THEN [acc EXCEPT !.even = BNAdd(acc.even, term)]
              ELSE [acc EXCEPT !.odd = BNAdd(acc.odd, term)],
              BNDivSmall(BNDivSmall(BNMulSmall(term, num), den).q, n + 1).q,
              LAMBDA after, next : ExpTerms(next, num, den, n + 1, after))
Decay(k, hnum, hden) ==
    Let(ExpTerms(ExpUnit, k * hnum, hden, 0, [even |-> <<>>, odd |-> <<>>]),
        LAMBDA sums : BNToInt(BNDivSmall(BNSub(sums.even, sums.odd), Myriad).q))
DecayTable(hnum, hden) == [k \in 0..(SubSteps + MaxOvershoot) |-> Decay(k, hnum, hden)]
\* v * e / 10^8 rounded to the nearest integer, for a decay factor e
MulDecay(v, e) ==
    LET a == IF v < 0 THEN -v ELSE v
        p == a * (e \div Myriad) + (a * (e % Myriad)) \div Myriad
        q == (p + Myriad \div 2) \div Myriad
    IN  IF v < 0 THEN -q ELSE q

\* ---- the time grid of one simulate_static call ----
\* One iteration of the loop over numpy.arange(step, time + step, step): its time t
\* and the points numpy.arange(t - step, t, int_step) that odeint is given
\* (first point, number of points, final point).
TimeGridRow(step, int_step, idx) ==
    Let(ArangeAt(step, step, idx),
        LAMBDA t : Let(FSub(t, step),
        LAMBDA a : Let(ArangeLen(a, t, int_step),
        LAMBDA npts : [t |-> t, first |-> a, npts |-> npts,
                       final |-> ArangeAt(a, int_step, npts - 1)])))
\* step = time / steps, int_step = step / 10, the rows of
\* numpy.arange(step, time + step, step), and exp(-k * int_step) for the sub-steps k
TimeGridRows(steps, time, step) ==
    Let2(Let2(step, FFromInt(SubSteps), FDiv),
         Let(Let2(FFromInt(time), step, FAdd), LAMBDA stop : ArangeLen(step, stop, step)),
         LAMBDA int_step, count :
             [steps |-> steps, time |-> time, step |-> step, int_step |-> int_step,
              rows |-> [j \in 1..count |-> TimeGridRow(step, int_step, j - 1)],
              decay |-> DecayTable(time, SubSteps * steps)])
TimeGrid(steps, time) ==
    Let(Let2(FFromInt(time), FFromInt(steps), FDiv),
        LAMBDA step : TimeGridRows(steps, time, step))

\* (steps, time) arguments the model calls simulate with, and the unit tests'
SimArgs   == <<<<1, 1>>, <<2, 1>>, <<7, 17>>>>
TestArgs  == <<1000, 10>>
\* the time grids of the calls args names
GridTable(args) == [j \in 1..Len(args) |-> TimeGrid(args[j][1], args[j][2])]

\* ---- the network object ----
VARIABLES
    num_osc,         \* number of oscillators (network._num_osc)
    weight,          \* weight[target][source]
    states,          \* state of every oscillator, in 1/Scale
    outputs,         \* published outputs, each -1 or 1
    outputs_buffer,  \* pending outputs, latched while integrating
    pc,              \* "idle", or "loop" inside simulate_static's for-loop
    call,            \* arguments of the running or last simulate_static call
    step_no,         \* iterations of the for-loop done so far
    dyn_time,        \* local dyn_time of simulate_static
    dyn_state,       \* local dyn_state of simulate_static
    result,          \* what the last public call returned or raised
    calls,           \* setter, simulate and neuron_states calls so far
    last,            \* record of the most recent macro step
    time_grids       \* what numpy.arange yields for the calls made (never changes)
vars == <<num_osc, weight, states, outputs, outputs_buffer, pc, call, step_no,
          dyn_time, dyn_state, result, calls, last, time_grids>>

\* the time grid of simulate_static(steps, time, ...)
TestGrid == TimeGrid(TestArgs[1], TestArgs[2])
Grid(steps, time) ==
    IF steps = TestArgs[1] /\ time = TestArgs[2] THEN TestGrid ELSE
    Let(time_grids,
        LAMBDA table : table[CHOOSE j \in DOMAIN table :
                                 table[j].steps = steps /\ table[j].time = time])

MaxOsc   == 2
MaxCalls == 2
\* resolution of the fixed-point state values
Scale    == 10000

Osc          == 0..(num_osc - 1)
OwnWeights   == {-4, -2}
NeighWeights == {-1, 1}
StateValues  == {-(Scale \div 2), (3 * Scale) \div 2}
Solutions    == {"FAST", "RK4", "RKF45"}
NoCall       == [steps |-> 0]
NoStep       == [valid |-> FALSE]

\* hysteresis_network.__init__ with type_conn = ALL_TO_ALL
Constructed(size, own_weight, neigh_weight) ==
    /\ num_osc = size
    /\ weight = [i \in 0..(size - 1) |->
                   [j \in 0..(size - 1) |-> IF i = j THEN own_weight ELSE neigh_weight]]
    /\ states = [i \in 0..(size - 1) |-> 0]
    /\ outputs = [i \in 0..(size - 1) |-> -1]
    /\ outputs_buffer = [i \in 0..(size - 1) |-> -1]
    /\ pc = "idle" /\ call = NoCall /\ step_no = 0
    /\ dyn_time = <<>> /\ dyn_state = <<>>
    /\ result = [kind |-> "None"] /\ calls = 0 /\ last = NoStep

Init ==
    /\ time_grids = GridTable(SimArgs)
    /\ \E size \in 1..MaxOsc, own_weight \in OwnWeights, neigh_weight \in NeighWeights :
           Constructed(size, own_weight, neigh_weight)

\* network.has_connection for the all-to-all topology
has_connection(i, j) == i # j

\* states setter
set_states(values) ==
    /\ pc = "idle" /\ calls < MaxCalls
    /\ states' = values
    /\ result' = [kind |-> "None"] /\ calls' = calls + 1
    /\ call' = NoCall /\ last' = NoStep
    /\ UNCHANGED <<num_osc, weight, outputs, outputs_buffer, pc, step_no, dyn_time, dyn_state, time_grids>>

\* outputs setter
set_outputs(values) ==
    /\ pc = "idle" /\ calls < MaxCalls
    /\ outputs' = values
    /\ outputs_buffer' = values
    /\ result' = [kind |-> "None"] /\ calls' = calls + 1
    /\ call' = NoCall /\ last' = NoStep
    /\ UNCHANGED <<num_osc, weight, states, pc, step_no, dyn_time, dyn_state, time_grids>>

\* ---- the derivative and one macro step ----
neighbours_impact(index) ==
    LET impact[i \in 0..num_osc] ==
            IF i = 0 THEN 0
            ELSE impact[i - 1] + (IF has_connection(i - 1, index)
                                  THEN weight[index][i - 1] * outputs[i - 1] ELSE 0)
    IN  impact[num_osc]

\* a latch with no way down
latch_up_only(xi, index, buffer) ==
    IF xi > Scale THEN [buffer EXCEPT ![index] = 1] ELSE buffer
\* the threshold test of neuron_states: the pending outputs after it has seen state xi
latch(xi, index, buffer) ==
    IF xi < -Scale THEN [buffer EXCEPT ![index] = -1]
    ELSE IF xi > Scale THEN [buffer EXCEPT ![index] = 1]
    ELSE buffer

\* a derivative that reads the pending outputs instead of the published ones
RECURSIVE pending_impact(_, _, _)
pending_impact(index, i, buffer) ==
    IF i >= num_osc THEN 0
    ELSE (IF has_connection(i, index) THEN weight[index][i] * buffer[i] ELSE 0)
         + pending_impact(index, i + 1, buffer)
neuron_states_pending(xi, index, buffer) ==
    [x |-> -xi + Scale * (weight[index][index] * buffer[index] + pending_impact(index, 0, buffer)),
     buffer |-> latch(xi, index, buffer)]

\* neuron_states: the derivative x at state xi, and the pending outputs after the latch
neuron_states(xi, index, buffer) ==
    LET impact == weight[index][index] * outputs[index] + neighbours_impact(index)
    IN  [x |-> -xi + Scale * impact, buffer |-> latch(xi, index, buffer)]

\* The pending outputs after the derivative has been evaluated at each of values, in
\* order.
odeint_steps(index, values, buffer) ==
    LET latched[p \in 0..Len(values)] ==
            IF p = 0 THEN buffer ELSE latch(values[p], index, latched[p - 1])
    IN  latched[Len(values)]
\* the solution at a time whose decay factor is e, from y0 towards level (a function,
\* so that its arithmetic is evaluated apart from the caller's bindings)
relax == [y0 \in Int, level \in Int, e \in Nat |-> level + MulDecay(y0 - level, e)]
\* scipy's odeint from y0 over npts time points int_step apart, decay[k] being
\* exp(-k * int_step), level the state the derivative at y0 drives towards.  traj is
\* the value returned for each time point.  The integrator chooses its own internal
\* times: it evaluates the derivative at y0 and then along the solution, up to `past`
\* sub-steps beyond the last time point; seen stands for the values handed to the
\* derivative, and beyond[j] is the solution j sub-steps past the last time point.
odeint_from(y0, level, index, npts, decay, past, buffer) ==
    Let2([k \in 1..npts |-> relax[y0, level, decay[k - 1]]],
         [j \in 1..MaxOvershoot |-> relax[y0, level, decay[npts - 1 + j]]],
         LAMBDA traj, beyond :
             [traj |-> traj, seen |-> traj \o (IF past = 0 THEN <<>> ELSE <<beyond[past]>>),
              beyond |-> beyond,
              buffer |-> odeint_steps(index,
                                      traj \o (IF past = 0 THEN <<>> ELSE <<beyond[past]>>),
                                      buffer)])
odeint(y0, index, npts, decay, past, buffer) ==
    odeint_from(y0, y0 + neuron_states(y0, index, buffer).x, index, npts, decay, past, buffer)

\* _calculate_states with the oscillators taken in the given order; the code's order
\* is range(0, num_osc).  row is the TimeGridRow of the iteration, over[i] how far
\* the integration of oscillator i runs past its last time point; done[p] is the
\* loop's state after p oscillators.
NoOsc == [traj |-> <<>>, seen |-> <<>>, beyond |-> <<>>]
calculate_from(order, row, decay, over) ==
    LET done[p \in 0..Len(order)] ==
            IF p = 0
            THEN [next_states |-> [i \in Osc |-> 0], buffer |-> outputs_buffer,
                  osc |-> [i \in Osc |-> NoOsc]]
            ELSE Let2(done[p - 1], order[p],
                      LAMBDA acc, index :
                          Let(odeint(states[index], index, row.npts, decay, over[index],
                                     acc.buffer),
                              LAMBDA r :
                                  [next_states |-> [acc.next_states EXCEPT
                                                        ![index] = r.traj[Len(r.traj)]],
                                   buffer |-> r.buffer,
                                   osc |-> [acc.osc EXCEPT
                                                ![index] = [traj |-> r.traj, seen |-> r.seen,
                                                            beyond |-> r.beyond]]]))
    IN  done[Len(order)]
\* a macro step that never publishes the pending outputs
calculate_states_unpublished(order, row, decay, over) ==
    Let(calculate_from(order, row, decay, over),
        LAMBDA done : [next_states |-> done.next_states, published |-> outputs,
                       buffer |-> done.buffer, osc |-> done.osc])
RangeOrder == [p \in 1..num_osc |-> p - 1]
_calculate_states(order, row, decay, over) ==
    Let(calculate_from(order, row, decay, over),
        LAMBDA done : [next_states |-> done.next_states, published |-> done.buffer,
                       buffer |-> done.buffer, osc |-> done.osc])
\* The overshoots that change what a macro step latches, given the step `exact`
\* without overshoot; the others give the same network as no overshoot.
Overshoots(exact) ==
    {over \in [Osc -> 0..MaxOvershoot] :
        \A i \in Osc :
            over[i] > 0 =>
                \/ exact.osc[i].beyond[over[i]] > Scale /\ exact.buffer[i] # 1
                \/ exact.osc[i].beyond[over[i]] < -Scale /\ exact.buffer[i] # -1}

\* a direct call network.neuron_states([xi], t, index) of the public method
call_neuron_states(xi, index) ==
    /\ pc = "idle" /\ calls < MaxCalls
    /\ \E f \in {neuron_states(xi, index, outputs_buffer)} :
           /\ outputs_buffer' = f.buffer
           /\ result' = [kind |-> "derivative", x |-> f.x]
    /\ calls' = calls + 1 /\ call' = NoCall /\ last' = NoStep
    /\ UNCHANGED <<num_osc, weight, states, outputs, pc, step_no, dyn_time, dyn_state,
                   time_grids>>

\* ---- simulation ----
\* a solver check that forgets RKF45
unsupported_fast_only(solution) == solution = "FAST"
\* the solver check at the head of simulate_static
unsupported(solution) == solution = "FAST" \/ solution = "RKF45"

raise_NameError ==
    /\ result' = [kind |-> "NameError"] /\ calls' = calls + 1
    /\ call' = NoCall /\ last' = NoStep
    /\ UNCHANGED <<num_osc, weight, states, outputs, outputs_buffer, pc, step_no,
                   dyn_time, dyn_state, time_grids>>

\* simulate_static up to the head of its for-loop
simulate_static(steps, time, solution, collect_dynamic) ==
    /\ pc = "idle" /\ calls < MaxCalls
    /\ IF unsupported(solution) THEN raise_NameError
       ELSE /\ dyn_state' = IF collect_dynamic THEN <<states>> ELSE <<>>
            /\ dyn_time' = IF collect_dynamic THEN <<FZero>> ELSE <<>>
            /\ call' = [steps |-> steps, time |-> time, collect_dynamic |-> collect_dynamic,
                        initial |-> states]
            /\ pc' = "loop" /\ step_no' = 0
            /\ result' = [kind |-> "running"] /\ calls' = calls + 1 /\ last' = NoStep
            /\ UNCHANGED <<num_osc, weight, states, outputs, outputs_buffer, time_grids>>

\* simulate hands its arguments to simulate_static
simulate(steps, time, solution, collect_dynamic) ==
    simulate_static(steps, time, solution, collect_dynamic)

simulate_dynamic ==
    /\ pc = "idle" /\ calls < MaxCalls
    /\ raise_NameError

\* one iteration of the for-loop of simulate_static
macro_step ==
    /\ pc = "loop"
    /\ \E grid \in {Grid(call.steps, call.time)} :
           /\ step_no < Len(grid.rows)
           /\ \E exact \in {_calculate_states(RangeOrder, grid.rows[step_no + 1], grid.decay,
                                               [i \in Osc |-> 0])} :
                  \E over \in Overshoots(exact) :
                      LET row == grid.rows[step_no + 1]
                          new == IF \A i \in Osc : over[i] = 0 THEN exact
                                 ELSE _calculate_states(RangeOrder, row, grid.decay, over)
                      IN  /\ states' = new.next_states
                          /\ outputs' = new.published
                          /\ outputs_buffer' = new.buffer
                          /\ dyn_state' = IF call.collect_dynamic
                                          THEN Append(dyn_state, new.next_states)
                                          ELSE new.next_states
                          /\ dyn_time' = IF call.collect_dynamic THEN Append(dyn_time, row.t)
                                         ELSE row.t
                          /\ last' = [valid |-> TRUE, pre_states |-> states,
                                      pre_outputs |-> outputs, pre_buffer |-> outputs_buffer,
                                      row |-> row, osc |-> new.osc, over |-> over]
    /\ step_no' = step_no + 1
    /\ UNCHANGED <<num_osc, weight, pc, call, result, calls, time_grids>>

\* the return of simulate_static
simulate_return ==
    /\ pc = "loop"
    /\ step_no = Len(Grid(call.steps, call.time).rows)
    /\ result' = [kind |-> "dynamic", t |-> dyn_time, x |-> dyn_state]
    /\ pc' = "idle" /\ dyn_time' = <<>> /\ dyn_state' = <<>>
    /\ UNCHANGED <<num_osc, weight, states, outputs, outputs_buffer, call, step_no, calls, last, time_grids>>

Next ==
    \/ \E values \in [Osc -> StateValues] : set_states(values)
    \/ \E values \in [Osc -> {-1, 1}] : set_outputs(values)
    \/ \E j \in DOMAIN SimArgs, solution \in Solutions, collect_dynamic \in BOOLEAN :
           simulate(SimArgs[j][1], SimArgs[j][2], solution, collect_dynamic)
    \/ \E j \in DOMAIN SimArgs, solution \in Solutions, collect_dynamic \in BOOLEAN :
           simulate_static(SimArgs[j][1], SimArgs[j][2], solution, collect_dynamic)
    \/ simulate_dynamic
    \/ \E xi \in StateValues \cup {-((3 * Scale) \div 2)}, index \in Osc :
           call_neuron_states(xi, index)
    \/ macro_step
    \/ simulate_return

Spec == Init /\ [][Next]_vars

\* ---- allocate_sync_ensembles ----
\* States compared by allocate_sync_ensembles are Python floats (here non-negative).
\* the float nearest to the decimal num/den
Dec(num, den) == Let2(FFromInt(num), FFromInt(den), FDiv)

\* the test of the innermost loop: states[i] < states[m] + tolerance and
\* states[i] > states[m] - tolerance, both bounds rounded as Python computes them
in_tolerance(i, member, tolerance) ==
    /\ Let(FAdd(states[member], tolerance), LAMBDA upper : FLess(states[i], upper))
    /\ IF FLess(states[member], tolerance) THEN TRUE
       ELSE Let(FSub(states[member], tolerance), LAMBDA lower : FLess(lower, states[i]))

\* a scan that looks at the first member of the cluster only
scan_cluster_first_member(cluster, i, tolerance, pos) == in_tolerance(i, cluster[1], tolerance)

\* for neuron_index in cluster: whether some member is within tolerance of oscillator i
RECURSIVE scan_cluster(_, _, _, _)
scan_cluster(cluster, i, tolerance, pos) ==
    IF pos > Len(cluster) THEN FALSE
    ELSE IF in_tolerance(i, cluster[pos], tolerance) THEN TRUE
    ELSE scan_cluster(cluster, i, tolerance, pos + 1)

\* a scan without the second break: i joins every cluster that has such a member
scan_clusters_no_break(clusters, i, tolerance, pos) ==
    IF \E c \in 1..Len(clusters) :
           \E p \in 1..Len(clusters[c]) : in_tolerance(i, clusters[c][p], tolerance)
    THEN [c \in 1..Len(clusters) |->
            IF \E p \in 1..Len(clusters[c]) : in_tolerance(i, clusters[c][p], tolerance)
            THEN Append(clusters[c], i) ELSE clusters[c]]
    ELSE Append(clusters, <<i>>)

\* for cluster in clusters: append i to the first cluster that has such a member and
\* stop; a new cluster [i] if there is none
RECURSIVE scan_clusters(_, _, _, _)
scan_clusters(clusters, i, tolerance, pos) ==
    IF pos > Len(clusters) THEN Append(clusters, <<i>>)
    ELSE IF scan_cluster(clusters[pos], i, tolerance, 1)
         THEN [clusters EXCEPT ![pos] = Append(@, i)]
    ELSE scan_clusters(clusters, i, tolerance, pos + 1)

RECURSIVE allocate_from(_, _, _)
allocate_from(clusters, i, tolerance) ==
    IF i >= num_osc THEN clusters
    ELSE Let(scan_clusters(clusters, i, tolerance, 1),
             LAMBDA grown : allocate_from(grown, i + 1, tolerance))

allocate_sync_ensembles(tolerance) ==
    /\ pc = "idle"
    /\ result' = [kind |-> "clusters", tolerance |-> tolerance,
                  clusters |-> allocate_from(<<<<0>>>>, 1, tolerance)]
    /\ UNCHANGED <<num_osc, weight, states, outputs, outputs_buffer, pc, call, step_no,
                   dyn_time, dyn_state, calls, last, time_grids>>

MaxAllocOsc == 4
AllocValues == {Dec(6, 10), Dec(7, 10), Dec(8, 10), Dec(5, 1)}
Tolerances  == {FZero, Dec(1, 10), Dec(2, 10)}
\* the state vector of the documented example: [1, 1.05, 1.02, 5, 5.01]
ExampleStates == <<Dec(1, 1), Dec(105, 100), Dec(102, 100), Dec(5, 1), Dec(501, 100)>>

InitAlloc ==
    /\ time_grids = <<>>
    /\ \E size \in 1..(MaxAllocOsc + 1) :
           /\ num_osc = (IF size > MaxAllocOsc THEN Len(ExampleStates) ELSE size)
           /\ IF size > MaxAllocOsc
              THEN states = [i \in 0..(Len(ExampleStates) - 1) |-> ExampleStates[i + 1]]
              ELSE states \in [0..(size - 1) -> AllocValues]
    /\ weight = [i \in Osc |-> [j \in Osc |-> IF i = j THEN -4 ELSE -1]]
    /\ outputs = [i \in Osc |-> -1]
    /\ outputs_buffer = [i \in Osc |-> -1]
    /\ pc = "idle" /\ call = NoCall /\ step_no = 0
    /\ dyn_time = <<>> /\ dyn_state = <<>>
    /\ result = [kind |-> "None"] /\ calls = 0 /\ last = NoStep

NextAlloc == \E tolerance \in Tolerances : allocate_sync_ensembles(tolerance)

SpecAlloc == InitAlloc /\ [][NextAlloc]_vars

\* ---- the unit tests' networks (tests.py) ----
\* templateOscillationExistance(num_osc, own_weight, neigh_weight, steps, time,
\* initial_states, initial_outputs): the network it builds, before simulate
Half == Scale \div 2
TestNets ==
    <<[size |-> 1, own |-> -2, neigh |-> -1, initial_states |-> <<0>>, initial_outputs |-> <<-1>>],
      [size |-> 1, own |-> -4, neigh |-> -1, initial_states |-> <<0>>, initial_outputs |-> <<-1>>],
      [size |-> 2, own |-> -4, neigh |-> 1, initial_states |-> <<Scale, 0>>,
       initial_outputs |-> <<1, 1>>],
      [size |-> 2, own |-> -4, neigh |-> -1, initial_states |-> <<Scale, 0>>,
       initial_outputs |-> <<1, 1>>],
      [size |-> 5, own |-> -4, neigh |-> -1,
       initial_states |-> <<Scale, Half, 0, -Half, -Scale>>,
       initial_outputs |-> <<1, 1, 1, 1, 1>>]>>

InitOsc ==
    /\ time_grids = <<>>
    /\ \E net \in {TestNets[j] : j \in DOMAIN TestNets} :
           /\ num_osc = net.size
           /\ weight = [i \in 0..(net.size - 1) |->
                          [j \in 0..(net.size - 1) |-> IF i = j THEN net.own ELSE net.neigh]]
           /\ states = [i \in 0..(net.size - 1) |-> net.initial_states[i + 1]]
           /\ outputs = [i \in 0..(net.size - 1) |-> net.initial_outputs[i + 1]]
           /\ outputs_buffer = [i \in 0..(net.size - 1) |-> net.initial_outputs[i + 1]]
           /\ pc = "idle" /\ call = NoCall /\ step_no = 0
           /\ dyn_time = <<>> /\ dyn_state = <<>>
           /\ result = [kind |-> "None"] /\ calls = 0 /\ last = NoStep

\* (t, x) = network.simulate(steps, time), once
NextOsc ==
    \/ calls = 0 /\ simulate(TestArgs[1], TestArgs[2], "RK4", TRUE)
    \/ macro_step
    \/ simulate_return

SpecOsc == InitOsc /\ [][NextOsc]_vars

\* ---- properties ----
SortedSeq(S) == [p \in 1..Cardinality(S) |->
                    CHOOSE v \in S : Cardinality({w \in S : w < v}) = p - 1]
MaxOf(S) == CHOOSE v \in S : \A w \in S : w <= v
MinOf(S) == CHOOSE v \in S : \A w \in S : v <= w

\* |states[i] - states[member]| < tolerance over the reals
ExactLessSum(x, y, z) ==
    Let(FMin(x.e, FMin(y.e, z.e)),
        LAMBDA em : Let2(FAligned(x, em), Let2(FAligned(y, em), FAligned(z, em), BNAdd),
                         BNCmp) < 0)
exactly_in_tolerance(i, member, tolerance) ==
    /\ ExactLessSum(states[i], states[member], tolerance)
    /\ ExactLessSum(states[member], states[i], tolerance)
Near(i, member, tolerance, exact) ==
    IF exact THEN exactly_in_tolerance(i, member, tolerance)
    ELSE in_tolerance(i, member, tolerance)

\* First-fit reference.  groups[m + 1] is the number, in creation order, of the group
\* of oscillator m < i; oscillator i gets the least group number among the oscillators
\* before it that it is near to, or a new number.
RECURSIVE FirstFitGroups(_, _, _, _)
FirstFitGroups(i, groups, tolerance, exact) ==
    IF i >= num_osc THEN groups
    ELSE LET matching == {member \in 0..(i - 1) : Near(i, member, tolerance, exact)}
         IN  Let(IF matching = {} THEN 1 + MaxOf({groups[p] : p \in 1..Len(groups)})
                 ELSE MinOf({groups[member + 1] : member \in matching}),
                 LAMBDA g : FirstFitGroups(i + 1, Append(groups, g), tolerance, exact))
FirstFit(tolerance, exact) ==
    Let(FirstFitGroups(1, <<1>>, tolerance, exact),
        LAMBDA groups : [g \in 1..MaxOf({groups[p] : p \in 1..Len(groups)}) |->
                            SortedSeq({i \in Osc : groups[i + 1] = g})])
SameGroups(found, wanted) ==
    /\ Len(found) = Len(wanted)
    /\ \A g \in 1..Len(found) :
           /\ Len(found[g]) = Len(wanted[g])
           /\ \A p \in 1..Len(found[g]) : found[g][p] = wanted[g][p]

\* C1 (as amended): allocate_sync_ensembles is first-fit.  Oscillator i joins the first
\* group, in creation order, that has a member m with
\* states[m] - tolerance < states[i] < states[m] + tolerance, both bounds rounded as
\* floating-point arithmetic rounds them; a new group [i] if there is none.
C1_FirstFitRounded ==
    result.kind = "clusters" => SameGroups(result.clusters, FirstFit(result.tolerance, FALSE))
\* C1 as stated: the same with the test |states[i] - states[m]| < tolerance
C1_FirstFitExact ==
    result.kind = "clusters" => SameGroups(result.clusters, FirstFit(result.tolerance, TRUE))
\* a group was chained: its third member is not within tolerance of its first, and
\* another group was created after it
C1_Chained ==
    /\ result.kind = "clusters"
    /\ Len(result.clusters) >= 2
    /\ Len(result.clusters[1]) >= 3
    /\ ~in_tolerance(result.clusters[1][3], result.clusters[1][1], result.tolerance)

\* C2: the groups returned by allocate_sync_ensembles are a partition of 0..num_osc-1:
\* every index is in exactly one group exactly once, and nothing else is in a group.
C2_Partition ==
    result.kind = "clusters" =>
        LET places == {gp \in (1..Len(result.clusters)) \X (1..num_osc) :
                           gp[2] <= Len(result.clusters[gp[1]])}
        IN  /\ \A g \in 1..Len(result.clusters) : Len(result.clusters[g]) <= num_osc
            /\ \A gp \in places : result.clusters[gp[1]][gp[2]] \in Osc
            /\ \A i \in Osc :
                   Cardinality({gp \in places : result.clusters[gp[1]][gp[2]] = i}) = 1
\* oscillator 2 is within tolerance of oscillator 1, which has a group of its own, and
\* is in the group of oscillator 0 only
C2_SeveralGroups ==
    /\ result.kind = "clusters"
    /\ num_osc = 3
    /\ SameGroups(result.clusters, <<<<0, 2>>, <<1>>>>)
    /\ in_tolerance(2, 1, result.tolerance)

\* ---- simulate ----
Returned == result.kind = "dynamic"
\* C3: a run with collect_dynamic = True returns steps + 1 snapshots, the first the
\* initial states at time 0, the last the pair (time of the last macro step, final
\* states), which is what a run with collect_dynamic = False returns.
C3_Snapshots ==
    Returned =>
        IF call.collect_dynamic
        THEN /\ Len(result.x) = call.steps + 1
             /\ Len(result.t) = call.steps + 1
             /\ result.t[1] = FZero /\ result.x[1] = call.initial
             /\ result.t[Len(result.t)] = last.row.t
             /\ result.x[Len(result.x)] = states
        ELSE result.t = last.row.t /\ result.x = states

UnsupportedRequest ==
    \/ simulate_dynamic
    \/ \E j \in DOMAIN SimArgs, solution \in {"FAST", "RKF45"}, collect_dynamic \in BOOLEAN :
           \/ simulate(SimArgs[j][1], SimArgs[j][2], solution, collect_dynamic)
           \/ simulate_static(SimArgs[j][1], SimArgs[j][2], solution, collect_dynamic)
\* C4: simulate / simulate_static with solution FAST or RKF45, and simulate_dynamic,
\* raise an error, run no macro step, and leave states, outputs and outputs_buffer
\* as they were.
C4_Unsupported ==
    [][UnsupportedRequest =>
           /\ result'.kind = "NameError"
           /\ pc' = "idle" /\ ~last'.valid /\ step_no' = step_no
           /\ states' = states /\ outputs' = outputs /\ outputs_buffer' = outputs_buffer]_vars
\* an error was raised on a network whose states and outputs had been moved by a run
C4_Refused ==
    /\ result.kind = "NameError"
    /\ \E i \in Osc : states[i] # 0 /\ outputs[i] = 1

Orders == {order \in [1..num_osc -> Osc] :
                    \A p, q \in 1..num_osc : order[p] = order[q] => p = q}
\* C5: one macro step gives the same states and the same outputs whatever the order in
\* which the oscillators are integrated.
C5_OrderIndependent ==
    [][macro_step =>
           \A grid \in {Grid(call.steps, call.time)} :
               \A order \in Orders :
                   LET row == grid.rows[step_no + 1]
                       any == _calculate_states(order, row, grid.decay, last'.over)
                   IN  any.next_states = states' /\ any.published = outputs']_vars
\* a macro step of two coupled oscillators in which one flipped its output and the
\* other did not
C5_OneFlipped ==
    /\ last.valid /\ num_osc >= 2
    /\ \E i, j \in Osc : /\ outputs[i] # last.pre_outputs[i]
                         /\ outputs[j] = last.pre_outputs[j]
                         /\ states[j] # last.pre_states[j]

\* ---- the latch ----
\* C7: a state driven above 1 (below -1) during a macro step has the published
\* output +1 (-1) at the end of that step.
C7_LatchOnState ==
    last.valid =>
        \A i \in Osc :
            LET traj == last.osc[i].traj
            IN  /\ (\E p \in 1..(Len(traj) - 1) : traj[p] <= Scale /\ traj[p + 1] > Scale)
                       => outputs[i] = 1
                /\ (\E p \in 1..(Len(traj) - 1) : traj[p] >= -Scale /\ traj[p + 1] < -Scale)
                       => outputs[i] = -1
\* a macro step drove a state from inside the band to below -1 and flipped the
\* output from +1 to -1
C7_Latched ==
    /\ last.valid
    /\ \E i \in Osc : /\ last.pre_outputs[i] = 1 /\ outputs[i] = -1
                      /\ last.pre_states[i] >= -Scale /\ states[i] < -Scale

InBand(values) == \A p \in 1..Len(values) : values[p] < Scale /\ values[p] > -Scale
\* C8: an oscillator all of whose state values seen in a macro step are strictly inside
\* (-1, 1) has the output after the step that it had before.  It fails after a direct
\* call of neuron_states has left a pending output that differs from the output.
C8_DeadBand ==
    last.valid =>
        \A i \in Osc : InBand(last.osc[i].seen) => outputs[i] = last.pre_outputs[i]

\* C9: the time points handed to the integrator in the macro step ending at t start at
\* t - step and end at t, and the new state is the trajectory value at t.
C9_WholeInterval ==
    last.valid =>
        \A grid \in {Grid(call.steps, call.time)} :
            /\ last.row.first = FSub(last.row.t, grid.step)
            /\ last.row.final = last.row.t
            /\ \A i \in Osc : /\ Len(last.osc[i].traj) = last.row.npts
                              /\ states[i] = last.osc[i].traj[last.row.npts]

\* C10: the pending buffer equals the published outputs whenever no macro step is in
\* progress (a macro step is one atomic step here).  It fails after a direct call of
\* neuron_states with a state outside the band.
C10_BufferIsOutputs == \A i \in Osc : outputs_buffer[i] = outputs[i]
\* the second half of C10: assigning states changes neither outputs nor the buffer
C10_StatesSetterKeepsBoth ==
    [][(\E values \in [Osc -> StateValues] : set_states(values)) =>
           outputs' = outputs /\ outputs_buffer' = outputs_buffer]_vars
\* only a direct call of neuron_states makes the two differ; an outputs assignment and
\* a macro step make them equal again
C10_OnlyDirectCall ==
    [][/\ (outputs_buffer' # outputs' /\ outputs_buffer = outputs) => result'.kind = "derivative"
       /\ (outputs' # outputs) => outputs_buffer' = outputs']_vars

\* ---- the unit tests ----
\* the number of times oscillator i changes sign along the returned trajectory
SignChanges(i) ==
    Cardinality({p \in 1..(Len(result.x) - 1) :
                    \/ result.x[p][i] > 0 /\ result.x[p + 1][i] <= 0
                    \/ result.x[p][i] < 0 /\ result.x[p + 1][i] >= 0})
====
